---- MODULE Spec2Model ----
(***************************************************************************)
(* Model of seo-checker (src/unnamed/part_001): the check registry, the    *)
(* discovery/ignore filter, the single-pass scan loop and the grouped      *)
(* report.                                                                 *)
(*                                                                         *)
(* Abstractions:                                                           *)
(*  - a path is the sequence of its segments;                              *)
(*  - a file's text is represented by what the checks can observe of it:   *)
(*    the set of registry regexes that match it, whether /<frameset\b/i    *)
(*    matches it, and the alt attribute of each <img> in document order    *)
(*    ("undefined" = attribute missing, "" = empty, "text" = non-empty);   *)
(*  - JavaScript's undefined/true/false for test.hasPassed are the strings *)
(*    "undefined", "true", "false"; test.failedFiles is a record whose     *)
(*    field def says whether the property has been assigned.               *)
(***************************************************************************)
EXTENDS Integers, Sequences, FiniteSets

VARIABLES
    entries,     \* result of fast-glob: absolute paths, in glob order
    gitignore,   \* rules loaded from <base>/.gitignore (empty: no file)
    disk,        \* per discovered path: readable?, content
    files,       \* entries that survive the ignore filter
    pos,         \* position of files.forEach
    tests,       \* mutable part of the registry: hasPassed, failedFiles
    pc,          \* "start", "scan", "done", "exit", "crashed"
    stdout,      \* lines written with console.log
    reads,       \* paths handed to fs.readFileSync by the scan loop
    evaluated,   \* paths whose content was handed to tests.forEach
    mode,        \* "first" run, or a second run: "fresh" / "kept" registry
    firstTests   \* registry state at the end of the first run

vars == <<entries, gitignore, disk, files, pos, tests, pc, stdout, reads,
          evaluated, mode, firstTests>>

----------------------------------------------------------------------------
(* Bounds and sample inputs *)

MaxFiles == 2

Base == <<"site">>

RelPaths ==
    { <<"index.html">>, <<"robots.txt">>, <<"dist", "old.html">>,
      <<"dist", "robots.txt">> }

IgnoreRules == {"dist"}

----------------------------------------------------------------------------
(* Check registry: static part *)

RegexDef(n, g) == [name |-> n, group |-> g, kind |-> "regex"]

TestDefs ==
    << RegexDef("Doctype", "Meta-Data"),
       RegexDef("HTML Lang", "Meta-Data"),
       RegexDef("Title Tag", "Meta-Data"),
       RegexDef("Meta Description", "Meta-Data"),
       RegexDef("Meta Viewport", "Meta-Data"),
       RegexDef("Meta Charset", "Meta-Data"),
       RegexDef("Meta Robots", "Meta-Data"),
       RegexDef("Canonical Link", "Meta-Data"),
       RegexDef("Favicons", "Meta-Data"),
       RegexDef("Inline Schema.org", "Schema.org"),
       RegexDef("JSON-LD Schema", "Schema.org"),
       RegexDef("OG Title", "Social-Media Tags"),
       RegexDef("OG Description", "Social-Media Tags"),
       RegexDef("OG Image", "Social-Media Tags"),
       RegexDef("Twitter Card", "Social-Media Tags"),
       RegexDef("Twitter Title", "Social-Media Tags"),
       RegexDef("Twitter Description", "Social-Media Tags"),
       [name |-> "Frameset", group |-> "Misc", kind |-> "test"],
       [name |-> "Robots.txt", group |-> "Misc", kind |-> "test"],
       [name |-> "Alt-Tags", group |-> "Images", kind |-> "aggregate"] >>

TestIds == DOMAIN TestDefs

RegexNames == { TestDefs[i].name : i \in { j \in TestIds : TestDefs[j].kind = "regex" } }

Undefined == [def |-> FALSE, items |-> <<>>]

\* The registry as the module literal leaves it: neither hasPassed nor
\* failedFiles is a property of any test object.
InitTests == [i \in TestIds |-> [hasPassed |-> "undefined", failedFiles |-> Undefined]]

----------------------------------------------------------------------------
(* Sample documents *)

Doc(m, fs, im) == [matches |-> m, frameset |-> fs, imgs |-> im]

SampleDocs ==
    { Doc({}, FALSE, <<>>),
      Doc(RegexNames, FALSE, <<"text">>),
      Doc({"Doctype", "JSON-LD Schema", "OG Title"}, FALSE, <<"text", "">>),
      Doc({"Doctype", "Title Tag"}, TRUE, <<>>),
      Doc({}, FALSE, <<"undefined">>),
      Doc({"Twitter Card"}, TRUE, <<"", "text">>) }

NoDoc == Doc({}, FALSE, <<>>)

FileStates ==
    { [readable |-> TRUE, content |-> d] : d \in SampleDocs }
        \cup { [readable |-> FALSE, content |-> NoDoc] }

----------------------------------------------------------------------------
(* Helpers on sequences and paths *)

Range(s) == { s[i] : i \in DOMAIN s }

IsInjective(s) == \A i, j \in DOMAIN s : s[i] = s[j] => i = j

Truthy(v) == v = "true"

Bool(b) == IF b THEN "true" ELSE "false"

Basename(p) == p[Len(p)]

Relative(base, f) == SubSeq(f, Len(base) + 1, Len(f))

Resolve(base, rel) == base \o rel

\* ig.filter([rel]).length > 0: rel is kept unless a rule excludes it. A
\* rule "d" stands for the pattern d/** : everything below directory d.
IgnoresPath(rules, rel) == \E r \in rules : Len(rel) > 1 /\ rel[1] = r

\* Variant of the filter that never consults the ignore rules.
KeepsEntryAll(rules, f) == TRUE

KeepsEntry(rules, f) == ~IgnoresPath(rules, Relative(Base, f))

----------------------------------------------------------------------------
(* Detection strategies *)

RegexTest(def, content) == def.name \in content.matches

FramesetTest(file, content) == ~content.frameset

RobotsTxtTest(file, content) == Basename(file) = "robots.txt"

Callback(def, file, content) ==
    IF def.name = "Frameset" THEN FramesetTest(file, content)
    ELSE RobotsTxtTest(file, content)

\* $("img").each(...): once hasMissingAlt is set the remaining elements are
\* passed over.
RECURSIVE EachImg(_, _)
EachImg(imgs, hasMissingAlt) ==
    IF imgs = <<>> THEN hasMissingAlt
    ELSE EachImg(Tail(imgs),
                 IF hasMissingAlt THEN hasMissingAlt
                 ELSE Head(imgs) = "undefined" \/ Head(imgs) = "")

AltTagsAggregate(file, content) == EachImg(content.imgs, FALSE)

----------------------------------------------------------------------------
(* Evaluation of one check on one file: body of tests.forEach *)

ShouldSkipNever(def, st) == FALSE

ShouldSkip(def, st) == Truthy(st.hasPassed) /\ def.kind # "aggregate"

\* Variant that re-initialises the aggregate state on every file.
AggregateStepReinit(def, st, file, content) ==
    IF AltTagsAggregate(file, content)
    THEN [hasPassed |-> "false", failedFiles |-> [def |-> TRUE, items |-> <<file>>]]
    ELSE [hasPassed |-> "true", failedFiles |-> [def |-> TRUE, items |-> <<>>]]

\* Variant that stops inspecting files once one offending file is known.
AggregateStepFirstOnly(def, st, file, content) ==
    IF st.hasPassed = "false" THEN st
    ELSE IF AltTagsAggregate(file, content)
    THEN [hasPassed |-> "false", failedFiles |-> [def |-> TRUE, items |-> <<file>>]]
    ELSE [hasPassed |-> "true", failedFiles |-> [def |-> TRUE, items |-> <<>>]]

AggregateStep(def, st, file, content) ==
    LET st1 == IF ~st.failedFiles.def
               THEN [hasPassed |-> "true",
                     failedFiles |-> [def |-> TRUE, items |-> <<>>]]
               ELSE st
    IN  IF AltTagsAggregate(file, content)
        THEN [hasPassed |-> "false",
              failedFiles |-> [def |-> TRUE,
                               items |-> Append(st1.failedFiles.items, file)]]
        ELSE st1

EvalTest(def, st, file, content) ==
    IF ShouldSkip(def, st) THEN st
    ELSE IF def.kind = "aggregate" THEN AggregateStep(def, st, file, content)
    ELSE IF def.kind = "test"
         THEN [st EXCEPT !.hasPassed = Bool(Callback(def, file, content))]
    ELSE [st EXCEPT !.hasPassed = Bool(RegexTest(def, content))]

ScanTests(ts, file, content) ==
    [i \in TestIds |-> EvalTest(TestDefs[i], ts[i], file, content)]

\* Variant in which a failed read yields empty text instead of throwing.
ReadFileEmptyOnError(d, file) ==
    [ok |-> TRUE, content |-> IF d[file].readable THEN d[file].content ELSE NoDoc]

\* fs.readFileSync inside try/catch: ok = FALSE is the catch branch.
ReadFile(d, file) ==
    IF d[file].readable THEN [ok |-> TRUE, content |-> d[file].content]
    ELSE [ok |-> FALSE, content |-> NoDoc]

\* The scan loop as a function of the file sequence.
RECURSIVE ScanAll(_, _, _)
ScanAll(ts, fs, d) ==
    IF fs = <<>> THEN ts
    ELSE LET r == ReadFile(d, Head(fs))
         IN  ScanAll(IF r.ok THEN ScanTests(ts, Head(fs), r.content) ELSE ts,
                     Tail(fs), d)

----------------------------------------------------------------------------
(* Report *)

Line(k, m, t, f) == [kind |-> k, marker |-> m, text |-> t, file |-> f]

HeaderLines ==
    << Line("header", "", "SEO Checker by Jan-Luca Klees", <<>>),
       Line("header", "", "", <<>>),
       Line("header", "", "Check Results:", <<>>) >>

NoFilesLine == Line("warning", "warn", "No files found for analysis.", <<>>)

\* new Set(tests.map(test => test.group)): groups in order of first appearance.
RECURSIVE GroupsFrom(_, _)
GroupsFrom(i, acc) ==
    IF i > Len(TestDefs) THEN acc
    ELSE GroupsFrom(i + 1,
                    IF TestDefs[i].group \in Range(acc) THEN acc
                    ELSE Append(acc, TestDefs[i].group))

Groups == GroupsFrom(1, <<>>)

RECURSIVE IdsFrom(_, _)
IdsFrom(i, groupName) ==
    IF i > Len(TestDefs) THEN <<>>
    ELSE (IF TestDefs[i].group = groupName THEN <<i>> ELSE <<>>)
             \o IdsFrom(i + 1, groupName)

GroupTests(groupName) == IdsFrom(1, groupName)

hasGroupPassed(ts, groupName) ==
    \A k \in DOMAIN GroupTests(groupName) : Truthy(ts[GroupTests(groupName)[k]].hasPassed)

hasGroupFailed(ts, groupName) ==
    \A k \in DOMAIN GroupTests(groupName) : ~Truthy(ts[GroupTests(groupName)[k]].hasPassed)

GroupMarkerSwapped(ts, groupName) ==
    IF hasGroupPassed(ts, groupName) THEN "pass"
    ELSE IF hasGroupFailed(ts, groupName) THEN "warn" ELSE "fail"

GroupMarker(ts, groupName) ==
    IF hasGroupPassed(ts, groupName) THEN "pass"
    ELSE IF hasGroupFailed(ts, groupName) THEN "fail" ELSE "warn"

FailLines(def, items) ==
    [k \in DOMAIN items |-> Line("check", "fail", def.name, items[k])]

\* groupTests.forEach: the lines of the checks ids[k..], and whether
\* test.failedFiles.forEach threw (failedFiles undefined).
RECURSIVE CheckLines(_, _, _)
CheckLines(ts, ids, k) ==
    IF k > Len(ids) THEN [lines |-> <<>>, crashed |-> FALSE]
    ELSE LET def == TestDefs[ids[k]]
             st == ts[ids[k]]
             rest == CheckLines(ts, ids, k + 1)
         IN  IF Truthy(st.hasPassed)
             THEN [rest EXCEPT !.lines = <<Line("check", "pass", def.name, <<>>)>> \o @]
             ELSE IF def.kind = "aggregate"
             THEN IF ~st.failedFiles.def
                  THEN [lines |-> <<>>, crashed |-> TRUE]
                  ELSE [rest EXCEPT !.lines = FailLines(def, st.failedFiles.items) \o @]
             ELSE [rest EXCEPT !.lines = <<Line("check", "fail", def.name, <<>>)>> \o @]

\* groups.forEach
RECURSIVE GroupLines(_, _)
GroupLines(ts, g) ==
    IF g > Len(Groups) THEN [lines |-> <<>>, crashed |-> FALSE]
    ELSE LET groupName == Groups[g]
             head == <<Line("group", GroupMarker(ts, groupName), groupName, <<>>)>>
             own == IF hasGroupPassed(ts, groupName)
                    THEN [lines |-> <<>>, crashed |-> FALSE]
                    ELSE CheckLines(ts, GroupTests(groupName), 1)
         IN  IF own.crashed
             THEN [lines |-> head \o own.lines, crashed |-> TRUE]
             ELSE LET rest == GroupLines(ts, g + 1)
                  IN  [lines |-> head \o own.lines \o rest.lines,
                       crashed |-> rest.crashed]

----------------------------------------------------------------------------
(* State machine *)

AbsPaths == { Resolve(Base, rel) : rel \in RelPaths }

EntryLists ==
    UNION { { s \in [1..n -> AbsPaths] : IsInjective(s) } : n \in 0..MaxFiles }

Init ==
    /\ entries \in EntryLists
    /\ gitignore \in SUBSET IgnoreRules
    /\ disk \in [Range(entries) -> FileStates]
    /\ files = <<>>
    /\ pos = 1
    /\ tests = InitTests
    /\ pc = "start"
    /\ stdout = <<>>
    /\ reads = {}
    /\ evaluated = {}
    /\ mode = "first"
    /\ firstTests = InitTests

\* Ignore filter and the no-files exit.
Discover ==
    /\ pc = "start"
    /\ LET kept == SelectSeq(entries, LAMBDA f : KeepsEntry(gitignore, f))
       IN  /\ files' = kept
           /\ IF Len(kept) = 0
              THEN /\ stdout' = Append(stdout, NoFilesLine)
                   /\ pc' = "exit"
              ELSE /\ stdout' = stdout
                   /\ pc' = "scan"
    /\ pos' = 1
    /\ UNCHANGED <<entries, gitignore, disk, tests, reads, evaluated, mode, firstTests>>

\* One iteration of files.forEach.
ScanFile ==
    /\ pc = "scan"
    /\ pos <= Len(files)
    /\ LET file == files[pos]
           r == ReadFile(disk, file)
       IN  /\ reads' = reads \cup {file}
           /\ IF r.ok
              THEN /\ tests' = ScanTests(tests, file, r.content)
                   /\ evaluated' = evaluated \cup {file}
              ELSE UNCHANGED <<tests, evaluated>>
    /\ pos' = pos + 1
    /\ UNCHANGED <<entries, gitignore, disk, files, pc, stdout, mode, firstTests>>

\* Output section, entered when files.forEach has returned.
Report ==
    /\ pc = "scan"
    /\ pos > Len(files)
    /\ LET r == GroupLines(tests, 1)
       IN  /\ stdout' = stdout \o HeaderLines \o r.lines
           /\ pc' = IF r.crashed THEN "crashed" ELSE "done"
    /\ UNCHANGED <<entries, gitignore, disk, files, pos, tests, reads, evaluated,
                   mode, firstTests>>

Next == Discover \/ ScanFile \/ Report

Spec == Init /\ [][Next]_vars

\* A second evaluation of the same directory in a new process: the module
\* is loaded again, so the registry is the literal again.
RerunFresh ==
    /\ pc \in {"done", "crashed", "exit"}
    /\ mode = "first"
    /\ mode' = "fresh"
    /\ firstTests' = tests
    /\ tests' = InitTests
    /\ pc' = "start"
    /\ files' = <<>>
    /\ pos' = 1
    /\ stdout' = <<>>
    /\ reads' = {}
    /\ evaluated' = {}
    /\ UNCHANGED <<entries, gitignore, disk>>

\* A second evaluation by the same process: the action handler runs again
\* over the module-level registry as the first run left it.
RerunKept ==
    /\ pc \in {"done", "crashed"}
    /\ mode = "first"
    /\ mode' = "kept"
    /\ firstTests' = tests
    /\ tests' = tests
    /\ pc' = "start"
    /\ files' = <<>>
    /\ pos' = 1
    /\ stdout' = <<>>
    /\ reads' = {}
    /\ evaluated' = {}
    /\ UNCHANGED <<entries, gitignore, disk>>

NextRerun == Discover \/ ScanFile \/ Report \/ RerunFresh \/ RerunKept

SpecRerun == Init /\ [][NextRerun]_vars

----------------------------------------------------------------------------
(* Vocabulary of the properties *)

IdOf(n) == CHOOSE i \in TestIds : TestDefs[i].name = n

NonAggregateIds == { i \in TestIds : TestDefs[i].kind # "aggregate" }

\* files.forEach has returned: the registry holds the final check states.
ScanFinished == (pc = "scan" /\ pos > Len(files)) \/ pc \in {"done", "crashed"}

RunFinished == pc \in {"done", "crashed", "exit"}

IsScanned(f) == disk[f].readable

ScannedFiles == SelectSeq(files, IsScanned)

Satisfies(i, f) ==
    IF TestDefs[i].kind = "regex" THEN RegexTest(TestDefs[i], disk[f].content)
    ELSE Callback(TestDefs[i], f, disk[f].content)

IsOffending(f) == IsScanned(f) /\ AltTagsAggregate(f, disk[f].content)

ScanOrders(s) == { t \in [DOMAIN s -> Range(s)] : IsInjective(t) }

IsIgnored(f) == IgnoresPath(gitignore, Relative(Base, f))

GroupLineOf(g) == { k \in DOMAIN stdout : stdout[k].kind = "group" /\ stdout[k].text = g }

MembersOf(g) == { i \in TestIds : TestDefs[i].group = g }

----------------------------------------------------------------------------
(* Properties *)

\* C1: after the scan, a non-aggregate check (regex, Frameset, Robots.txt)
\* has passed iff at least one scanned (readable) file satisfies its strategy.
C1_NonAggregateFinal ==
    ScanFinished =>
        \A i \in NonAggregateIds :
            Truthy(tests[i].hasPassed)
                <=> \E k \in DOMAIN ScannedFiles : Satisfies(i, ScannedFiles[k])

\* A check passed by the first of two scanned files only, next to a check that
\* no file satisfies.
C1_Witness ==
    /\ ScanFinished
    /\ Len(ScannedFiles) = 2
    /\ \E i, j \in NonAggregateIds :
          /\ Satisfies(i, ScannedFiles[1]) /\ ~Satisfies(i, ScannedFiles[2])
          /\ Truthy(tests[i].hasPassed)
          /\ ~Truthy(tests[j].hasPassed)

\* C2: after the scan (also when no file was readable) the Alt-Tags offending
\* list is the scan-ordered list of scanned files flagged by the predicate, and
\* the check has passed iff that list is empty.
C2_AltTagsList ==
    ScanFinished =>
        LET st == tests[IdOf("Alt-Tags")]
        IN  /\ st.failedFiles.items = SelectSeq(files, IsOffending)
            /\ Truthy(st.hasPassed) <=> (SelectSeq(files, IsOffending) = <<>>)

\* C3: if any scanned file contains frameset markup, the Frameset check ends
\* not passed, wherever that file is in the scan order.
C3_FramesetAnyViolation ==
    ScanFinished =>
        ((\E k \in DOMAIN ScannedFiles : disk[ScannedFiles[k]].content.frameset)
            => ~Truthy(tests[IdOf("Frameset")].hasPassed))

\* C4: the marker printed for a group is pass iff every member check passed,
\* fail iff none did, warn otherwise; every group gets exactly one marker.
C4_GroupStatus ==
    pc \in {"done", "crashed"} =>
        \A g \in Range(Groups) :
            /\ Cardinality(GroupLineOf(g)) = 1
            /\ \A k \in GroupLineOf(g) :
                  LET all == \A i \in MembersOf(g) : Truthy(tests[i].hasPassed)
                      none == \A i \in MembersOf(g) : ~Truthy(tests[i].hasPassed)
                  IN  /\ stdout[k].marker = "pass" <=> all
                      /\ stdout[k].marker = "fail" <=> none
                      /\ stdout[k].marker = "warn" <=> (~all /\ ~none)

\* A report showing all three group statuses.
C4_Witness ==
    /\ pc = "done"
    /\ \A m \in {"pass", "warn", "fail"} :
          \E k \in DOMAIN stdout : stdout[k].kind = "group" /\ stdout[k].marker = m

\* C5: scanning the same files in any other order gives every check the same
\* passed state and the aggregate list the same entries, order aside.
C5_OrderIndependent ==
    ScanFinished =>
        \A t \in ScanOrders(files) :
            LET r == ScanAll(InitTests, t, disk)
                a == IdOf("Alt-Tags")
            IN  /\ \A i \in TestIds : r[i].hasPassed = tests[i].hasPassed
                /\ Range(r[a].failedFiles.items) = Range(tests[a].failedFiles.items)
                /\ Len(r[a].failedFiles.items) = Len(tests[a].failedFiles.items)

\* Two offending files, and a check that only the second file satisfies.
C5_Witness ==
    /\ ScanFinished
    /\ Len(ScannedFiles) = 2
    /\ Len(tests[IdOf("Alt-Tags")].failedFiles.items) = 2
    /\ \E i \in NonAggregateIds :
          /\ ~Satisfies(i, ScannedFiles[1]) /\ Satisfies(i, ScannedFiles[2])
          /\ Truthy(tests[i].hasPassed)

\* C6: once a non-aggregate check has passed, no step changes its state.
C6_Monotonic ==
    [][\A i \in NonAggregateIds : Truthy(tests[i].hasPassed) => tests'[i] = tests[i]]_vars

\* A check passed by the first file, still passed after a second, readable
\* file that does not satisfy it has been processed.
C6_Witness ==
    /\ pc = "scan"
    /\ pos = 3
    /\ IsScanned(files[1]) /\ IsScanned(files[2])
    /\ \E i \in NonAggregateIds :
          /\ Satisfies(i, files[1]) /\ ~Satisfies(i, files[2])
          /\ Truthy(tests[i].hasPassed)

\* C7: unreadable files are dropped: every readable file is evaluated and the
\* final registry is the one obtained by scanning the readable files alone.
C7_UnreadableDropped ==
    ScanFinished =>
        /\ tests = ScanAll(InitTests, ScannedFiles, disk)
        /\ evaluated = Range(ScannedFiles)
        /\ reads = Range(files)

\* An unreadable file followed by a readable one that passes a check.
C7_Witness ==
    /\ ScanFinished
    /\ Len(files) = 2
    /\ ~IsScanned(files[1]) /\ IsScanned(files[2])
    /\ \E i \in NonAggregateIds : Truthy(tests[i].hasPassed)

\* C8: the run ends with the no-input signal iff no discovered file survives
\* the ignore filter; then nothing is read, evaluated or reported; ignored
\* files are never read or evaluated.
C8_NoInput ==
    /\ pc # "start" =>
          (pc = "exit" <=> \A f \in Range(entries) : IsIgnored(f))
    /\ pc = "exit" =>
          /\ reads = {} /\ evaluated = {} /\ tests = InitTests
          /\ stdout = <<NoFilesLine>>
    /\ \A f \in reads \cup evaluated : ~IsIgnored(f)

\* Files were discovered but all of them are ignored.
C8_Witness == pc = "exit" /\ entries # <<>>

C10_ReportCompletes ==
    /\ pc # "crashed"
    /\ (pc = "scan" /\ pos > Len(files)) =>
          \A i \in TestIds :
              (TestDefs[i].kind = "aggregate" /\ ~Truthy(tests[i].hasPassed))
                  => tests[i].failedFiles.def

====
